---- MODULE Spec2Model ----
(***************************************************************************)
(* Model of the Feishu webhook bot of src/app.js: the express handler      *)
(* app.post('/webhook'), the conversation store (sessions) and the audio   *)
(* pipeline.  A handler is an async function: it runs without interruption *)
(* from one await to the next, so every action below is one such segment,  *)
(* and the segments of concurrent handlers interleave at the awaits.       *)
(*                                                                         *)
(* A text is a sequence of one-character strings; the mention marker is    *)
(* the one token "@_user_1".  The JavaScript length of a text is the sum   *)
(* of the lengths of its tokens.                                           *)
(***************************************************************************)
EXTENDS Integers, Sequences, FiniteSets, TLC

(***************************************************************************)
(* Bounds of the model.                                                    *)
(***************************************************************************)
MaxDeliveries == 2
MaxChats == 3
MaxDispatches == 3

(***************************************************************************)
(* Program constants and configuration.                                    *)
(***************************************************************************)
STALE_MS == 10000
FEISHU_APP_ID == "app"
FEISHU_APP_SECRET == "secret"
FEISHU_BOTNAME == "bot"
OPENAI_KEY == "key"
MENTION_MARKER == "@_user_1"
\* the values OPENAI_MAX_TOKEN takes in the model (parseInt(env) || 1024)
MaxTokenChoices == {4}

\* parseInt(process.env.OPENAI_MAX_TOKEN) || 1024: NaN (unset, not a number)
\* and 0 are falsy and give the default, every other integer is kept
DEFAULT_MAX_TOKEN == 1024
EnvChoices ==
  {[nan |-> TRUE, n |-> 0], [nan |-> FALSE, n |-> 0], [nan |-> FALSE, n |-> 4],
   [nan |-> FALSE, n |-> -1]}
ParsedOrDefault(e) == IF e.nan \/ e.n = 0 THEN DEFAULT_MAX_TOKEN ELSE e.n
ConfiguredCeilings == {ParsedOrDefault(e) : e \in EnvChoices}

\* the fixed 13-character apology of getOpenAIReply, as one 13-character token
APOLOGY == <<"sorry-no-answ">>

(***************************************************************************)
(* Text helpers (String.prototype.length / trim / startsWith / replace /   *)
(* substring).                                                             *)
(***************************************************************************)
RECURSIVE JsLength(_)
JsLength(t) == IF t = <<>> THEN 0 ELSE Len(Head(t)) + JsLength(Tail(t))

IsSpace(c) == c = " "

RECURSIVE TrimStart(_)
TrimStart(t) ==
  IF t # <<>> /\ IsSpace(Head(t)) THEN TrimStart(Tail(t)) ELSE t

RECURSIVE TrimEnd(_)
TrimEnd(t) ==
  IF t # <<>> /\ IsSpace(t[Len(t)]) THEN TrimEnd(SubSeq(t, 1, Len(t) - 1)) ELSE t

JsTrim(t) == TrimEnd(TrimStart(t))

StartsWith(t, p) == Len(t) >= Len(p) /\ SubSeq(t, 1, Len(p)) = p

\* mutant: the text from the character before index n on
Substring_OneEarly(t, n) == IF n > Len(t) THEN <<>> ELSE SubSeq(t, n, Len(t))

\* t.substring(n): the text from character index n on (texts of one-character tokens)
Substring(t, n) == IF n >= Len(t) THEN <<>> ELSE SubSeq(t, n + 1, Len(t))

\* t.replace(MENTION_MARKER, ''): only the first occurrence is removed
RECURSIVE ReplaceFirstMarker(_)
ReplaceFirstMarker(t) ==
  IF t = <<>> THEN <<>>
  ELSE IF Head(t) = MENTION_MARKER THEN Tail(t)
  ELSE <<Head(t)>> \o ReplaceFirstMarker(Tail(t))

(***************************************************************************)
(* The conversation store.  sessions is a JavaScript object: a function    *)
(* whose domain is the set of keys it holds.  A Turn is {role, content};   *)
(* the field of is a ghost naming the handling that pushed the Turn.       *)
(***************************************************************************)
Turn(role, content, of) == [role |-> role, content |-> content, of |-> of]

HasSession(ss, sid) == sid \in DOMAIN ss

\* sessions[sessionId] || []
HistoryOf(ss, sid) == IF HasSession(ss, sid) THEN ss[sid] ELSE <<>>

Put(ss, sid, h) == [k \in DOMAIN ss \cup {sid} |-> IF k = sid THEN h ELSE ss[k]]

RECURSIVE TotalSize(_)
TotalSize(h) == IF h = <<>> THEN 0 ELSE JsLength(Head(h).content) + TotalSize(Tail(h))

\* the prompt buildConversation returns: the stored array (or a new one) with the
\* user Turn pushed
BuildPrompt(ss, sid, question, of) ==
  Append(HistoryOf(ss, sid), Turn("user", question, of))

\* buildConversation's effect on the store: push mutates the stored array in
\* place; an array created by `|| []` is never stored
BuildStore(ss, sid, question, of) ==
  IF HasSession(ss, sid) THEN Put(ss, sid, BuildPrompt(ss, sid, question, of)) ELSE ss

\* the trim loop of saveConversation; shift() on an empty array leaves it empty,
\* so with a ceiling below zero the loop never ends: TrimDiverges
TrimDiverges(maxToken) == maxToken < 0

\* mutant: the loop compares the number of Turns with the ceiling
RECURSIVE TrimLoop_ByCount(_, _)
TrimLoop_ByCount(h, maxToken) ==
  IF Len(h) > maxToken /\ h # <<>> THEN TrimLoop_ByCount(Tail(h), maxToken) ELSE h

\* mutant: each round of the loop shifts two Turns
RECURSIVE TrimLoop_Pairs(_, _)
TrimLoop_Pairs(h, maxToken) ==
  IF TotalSize(h) > maxToken /\ h # <<>>
  THEN TrimLoop_Pairs(IF Len(h) >= 2 THEN Tail(Tail(h)) ELSE <<>>, maxToken)
  ELSE h

RECURSIVE TrimLoop(_, _)
TrimLoop(h, maxToken) ==
  IF TotalSize(h) > maxToken /\ h # <<>> THEN TrimLoop(Tail(h), maxToken) ELSE h

SaveStore(ss, sid, answer, of, maxToken) ==
  Put(ss, sid, TrimLoop(Append(HistoryOf(ss, sid), Turn("assistant", answer, of)), maxToken))

\* mutant: the store is emptied
ClearStore_All(ss, sid) == << >>

\* mutant: delete sessions.sessionId, which removes no history
ClearStore_WrongKey(ss, sid) == ss

\* delete sessions[sessionId]
ClearStore(ss, sid) == [k \in DOMAIN ss \ {sid} |-> ss[k]]

(***************************************************************************)
(* Inputs: the request bodies the webhook receives, the answers of the     *)
(* collaborators.                                                          *)
(***************************************************************************)
EventIds == {"e1", "e2"}
UserIds == {"u1", "u2"}

\* the message_id of the message an event is about
MessageIdOf(e) == IF e = "e1" THEN "m1" ELSE "m2"

T_hi == <<"h", "i">>
T_at_hi == <<MENTION_MARKER, " ", "h", "i">>
T_clear == <<"/", "c", "l", "e", "a", "r">>
T_image == <<"/", "i", "m", "a", "g", "e", " ", "c">>
T_foo == <<"/", "f", "o", "o">>
TextChoices == {T_hi, T_at_hi, T_clear, T_image, T_foo}
T_help == <<"/", "h", "e", "l", "p">>
T_imageOnly == <<"/", "i", "m", "a", "g", "e">>
T_imagePadded == <<"/", "i", "m", "a", "g", "e", " ", " ", "c", " ">>
T_images == <<"/", "i", "m", "a", "g", "e", "s">>
T_clearNow == <<"/", "c", "l", "e", "a", "r", " ", "n">>
T_padded == <<" ", "h", "i", " ">>
\* the texts that exercise the command dispatch
DispatchTexts ==
  {T_hi, T_padded, T_clear, T_clearNow, T_help, T_foo, T_image, T_imageOnly,
   T_imagePadded, T_images}
TranscribedChoices == {T_hi, T_clear, T_image}
AnswerChoices == {<<"o", "k">>, <<" ", "y">>}
\* the answer of the model where the conversation is not what is looked at
OneAnswer == {<<" ", "y">>}

\* event.message.mentions: absent, or a list of {name, id}
NoMentions == [present |-> FALSE, list |-> <<>>]
Mentions(l) == [present |-> TRUE, list |-> l]
BotMention == Mentions(<<[name |-> FEISHU_BOTNAME, id |-> "b"]>>)
\* a mention of someone else whose id is the user_id of the sender u1
SenderMention == Mentions(<<[name |-> "carol", id |-> "u1"]>>)
MentionChoices ==
  {NoMentions, Mentions(<<>>), Mentions(<<[name |-> "alice", id |-> "a"]>>), BotMention,
   SenderMention}

\* kind: "url_verification" (params.type), "incomplete" (no header or no event),
\* "other" (another event_type), "message" (im.message.receive_v1)
Request(kind, e, u, st, ct, cht, m, mt, text) ==
  [kind |-> kind, event_id |-> e, message_id |-> MessageIdOf(e), chat_id |-> "c",
   user_id |-> u, sender_type |-> st, create_time |-> ct, chat_type |-> cht,
   mentions |-> m, message_type |-> mt, text |-> text]

NoRequest == Request("none", "e1", "u1", "user", 0, "p2p", NoMentions, "text", <<>>)

PlainRequests ==
  {Request(k, "e1", "u1", "user", 0, "p2p", NoMentions, "text", <<>>) :
     k \in {"url_verification", "incomplete", "other"}}

ChatShapes ==
  {<<"p2p", NoMentions>>, <<"topic", NoMentions>>} \cup
  {<<"group", m>> : m \in MentionChoices}

ContentShapes ==
  {<<"text", t>> : t \in TextChoices} \cup {<<"audio", <<>> >>, <<"image", <<>> >>}

\* the contents tried with a sender and a chat shape the handler answers
Answerable(st, cs) == st = "user" /\ cs \in {<<"p2p", NoMentions>>, <<"group", BotMention>>}
ProbeContents == {<<"text", T_hi>>, <<"audio", <<>> >>}
ContentsFor(st, cs) == IF Answerable(st, cs) THEN ContentShapes ELSE ProbeContents
\* the create_time values tried: 0, and 1 (not yet stale at the second clock
\* value) where the handler answers
CreateTimesFor(st, cs) == IF Answerable(st, cs) THEN {0, 1} ELSE {0}
\* the chat shapes tried with a sender: every shape for a user, three for the bot
ShapesFor(st) ==
  IF st = "user" THEN ChatShapes
  ELSE {<<"p2p", NoMentions>>, <<"group", NoMentions>>, <<"group", BotMention>>}

\* every shape of a message as event e1; a second event e2 in a private chat
MessageRequests ==
  UNION {UNION {{Request("message", "e1", u, st, ct, cs[1], cs[2], ms[1], ms[2]) :
                   ct \in CreateTimesFor(st, cs), u \in {"u1"},
                   ms \in ContentsFor(st, cs)} :
                cs \in ShapesFor(st)} :
         st \in {"user", "bot"}}
  \cup {Request("message", "e2", "u1", st, 0, "p2p", NoMentions, ms[1], ms[2]) :
          st \in {"user", "bot"}, ms \in ProbeContents}

Requests == PlainRequests \cup MessageRequests

\* the requests of a conversation: text messages of a private chat
ChatRequests ==
  {Request("message", "e1", u, "user", 0, "p2p", NoMentions, "text", t) :
     u \in UserIds, t \in {T_hi, T_clear}}

\* the requests of the dispatch: messages of a private chat, a text or a picture
DispatchRequests ==
  {Request("message", "e1", "u1", "user", 0, "p2p", NoMentions, ms[1], ms[2]) :
     ms \in {<<"text", t>> : t \in DispatchTexts} \cup {<<"image", <<>> >>}}
  \cup {Request("message", "e1", "u2", "user", 0, "p2p", NoMentions, "text", t) :
          t \in {T_hi, T_clear}}

SessionIdOf(r) == r.chat_id \o r.user_id
SessionIds == {SessionIdOf(r) : r \in Requests \cup ChatRequests \cup DispatchRequests}

Handlers == {1, 2}

\* the values of Date.now() in the model
Clock == {0, STALE_MS + 1}

(***************************************************************************)
(* State.                                                                  *)
(***************************************************************************)
VARIABLES
  sessions,          \* the conversation store
  OPENAI_MAX_TOKEN,  \* the ceiling, fixed when the module is loaded
  now,               \* Date.now()
  files,             \* the paths that exist in __dirname
  pc,                \* per handler: the await it is suspended at
  locals,            \* per handler: eventId, messageId, sessionId and the message type
  hid,               \* per handler: ghost, the number of its handling
  sent,              \* per handler: the argument of its chat or image call
  replies,           \* per handler: ghost, the replies it has sent, in order
  calls,             \* per handler: ghost, the collaborators it has called
  res,               \* per handler: the HTTP response it has sent
  delivered,         \* ghost: the number of deliveries so far
  arrived,           \* ghost: the request that arrived in the latest step, if any
  nproc,             \* ghost: per eventId, the deliveries that were processed
  ignoredIds,        \* ghost: the eventIds of deliveries ignored as self, stale or
                     \*        unaddressed
  appended,          \* ghost: per session, the Turns pushed since its last clear
  replyFailed        \* ghost: the handler whose reply failed in the latest step, or 0

vars == <<sessions, OPENAI_MAX_TOKEN, now, files, pc, locals, hid, sent, replies,
          calls, res, delivered, arrived, nproc, ignoredIds, appended, replyFailed>>

NoResponse == [sent |-> FALSE, code |-> "none"]
Response(code) == [sent |-> TRUE, code |-> code]
NothingSent == [kind |-> "none", arg |-> <<>>]
NoArrival == [h |-> 0, r |-> NoRequest, decision |-> "none"]

\* the constants the handler derives from the request (eventId, messageId,
\* sessionId = chatId + senderId) and the message type its branches test
LocalsOf(r) ==
  [eventId |-> r.event_id, messageId |-> r.message_id,
   sessionId |-> SessionIdOf(r), messageType |-> r.message_type]
NoLocals == [eventId |-> "", messageId |-> "", sessionId |-> "", messageType |-> ""]

\* the state when the module is loaded, the ceiling one of ceilings
Loaded(ceilings) ==
  /\ sessions = << >>
  /\ OPENAI_MAX_TOKEN \in ceilings
  /\ now = 0
  /\ files = {}
  /\ pc = [h \in Handlers |-> "idle"]
  /\ locals = [h \in Handlers |-> NoLocals]
  /\ hid = [h \in Handlers |-> 0]
  /\ sent = [h \in Handlers |-> NothingSent]
  /\ replies = [h \in Handlers |-> <<>>]
  /\ calls = [h \in Handlers |-> {}]
  /\ res = [h \in Handlers |-> NoResponse]
  /\ delivered = 0
  /\ arrived = NoArrival
  /\ nproc = [e \in EventIds |-> 0]
  /\ ignoredIds = {}
  /\ appended = [s \in SessionIds |-> <<>>]
  /\ replyFailed = 0

Init == Loaded(MaxTokenChoices)

\* the module is loaded with any ceiling the configuration can give
InitConfigured == Loaded(ConfiguredCeilings)

(***************************************************************************)
(* Handler plumbing.  When a handling ends, the locals of its async        *)
(* function are gone: the slot keeps the response only.                    *)
(***************************************************************************)
\* a handler slot is free when no request is being handled in it
Free(h) == pc[h] \in {"idle", "done", "threw"}

\* the event loop is blocked while a handler spins in a synchronous loop
Blocked == \E h \in Handlers : pc[h] = "spin"

Goto(h, p, c, r, s) ==
  /\ pc' = [pc EXCEPT ![h] = p]
  /\ calls' = [calls EXCEPT ![h] = c]
  /\ replies' = [replies EXCEPT ![h] = r]
  /\ sent' = [sent EXCEPT ![h] = s]
  /\ res' = [res EXCEPT ![h] = NoResponse]

End(h, p, rs) ==
  /\ pc' = [pc EXCEPT ![h] = p]
  /\ calls' = [calls EXCEPT ![h] = {}]
  /\ replies' = [replies EXCEPT ![h] = <<>>]
  /\ sent' = [sent EXCEPT ![h] = NothingSent]
  /\ res' = [res EXCEPT ![h] = rs]
  /\ locals' = [locals EXCEPT ![h] = NoLocals]
  /\ hid' = [hid EXCEPT ![h] = 0]

\* return res.status(200).send({code}) (or the challenge, or doctor's result)
Finish(h, code) == End(h, "done", Response(code))

\* an exception leaves the handler: no response is sent
Escape(h) == End(h, "threw", NoResponse)

\* reply(messageId, content, uuid) up to its await of client.im.message.reply
ReplyCall(h, kind, c, r, s, p) ==
  Goto(h, p, c \cup {"reply"}, Append(r, kind), s)

AudioFilePath(mid) == "audio_" \o mid \o ".mp3"
ConvertedAudioPath(mid) == "audio_" \o mid \o "_converted.mp3"

doctor ==
  IF "" \in {FEISHU_APP_ID, FEISHU_APP_SECRET, FEISHU_BOTNAME, OPENAI_KEY}
  THEN "doctor1" ELSE "doctor0"

\* the handler goes on to its next await
Continue(h, p, c, r, s) == Goto(h, p, c, r, s) /\ UNCHANGED <<locals, hid>>

\* mutant: the catch block replies with the apology of the chat path
Catch_Apology(h) ==
  /\ ReplyCall(h, "answer", calls[h], replies[h], sent[h], "awaitLastReply")
  /\ UNCHANGED <<locals, hid>>

\* the catch block of the audio branch
Catch(h) ==
  /\ ReplyCall(h, "audioFail", calls[h], replies[h], sent[h], "awaitLastReply")
  /\ UNCHANGED <<locals, hid>>

\* an exception thrown inside handleReply: the audio branch catches it, the
\* text branch lets it leave the handler
Throw(h) == IF locals[h].messageType = "audio" THEN Catch(h) ELSE Escape(h)

(***************************************************************************)
(* cmdProcess, cmdHelp, cmdClear and handleReply, up to their first await. *)
(***************************************************************************)
cmdProcess(h, action, sid, c, r) ==
  IF StartsWith(action, <<"/", "i", "m", "a", "g", "e">>)
  THEN /\ Goto(h, "awaitImage", c \cup {"image"}, r,
               [kind |-> "image", arg |-> JsTrim(Substring(action, 6))])
       /\ UNCHANGED <<sessions, appended>>
  ELSE IF action = T_clear
  THEN /\ sessions' = ClearStore(sessions, sid)
       /\ appended' = [appended EXCEPT ![sid] = <<>>]
       /\ ReplyCall(h, "cleared", c, r, NothingSent, "awaitReply")
  ELSE /\ ReplyCall(h, "help", c, r, NothingSent, "awaitReply")
       /\ UNCHANGED <<sessions, appended>>

handleReply(h, text, sid, of, c, r) ==
  LET question == JsTrim(ReplaceFirstMarker(text))
      action == JsTrim(question)
  IN IF StartsWith(action, <<"/">>)
     THEN cmdProcess(h, action, sid, c, r)
     ELSE /\ sessions' = BuildStore(sessions, sid, question, of)
          /\ appended' = [appended EXCEPT ![sid] = Append(@, Turn("user", question, of))]
          /\ Goto(h, "awaitChat", c \cup {"chat"}, r,
                  [kind |-> "chat", arg |-> BuildPrompt(sessions, sid, question, of)])

(***************************************************************************)
(* app.post('/webhook'): from the arrival of a request to the first await  *)
(* (or to the response, when there is none).                               *)
(***************************************************************************)
\* mutant: the sender type is compared with another word
isFromBot_WrongType(r) == r.sender_type = "app"

isFromBot(r) == r.sender_type = "bot"

\* mutant: the difference is taken the other way round
isStale_Swapped(r, t) == r.create_time - t > STALE_MS

isStale(r, t) == t - r.create_time > STALE_MS

noMentions(r) == ~r.mentions.present \/ Len(r.mentions.list) = 0

botMentioned(r) ==
  \E i \in 1..Len(r.mentions.list) :
     \/ r.mentions.list[i].name = FEISHU_BOTNAME
     \/ r.mentions.list[i].id = r.user_id

\* the branch the handler takes: the checks of the handler, in its order
Decision(r, t) ==
  IF r.kind = "url_verification" THEN "verify"
  ELSE IF r.kind = "incomplete" THEN "doctor"
  ELSE IF r.kind # "message" THEN "unhandled"
  ELSE IF isFromBot(r) THEN "self"
  ELSE IF isStale(r, t) THEN "stale"
  ELSE IF r.chat_type = "p2p" THEN "process"
  ELSE IF r.chat_type = "group"
  THEN IF noMentions(r) THEN "unaddressed"
       ELSE IF ~botMentioned(r) THEN "unaddressed"
       ELSE "process"
  ELSE "unhandled"

\* the body of the response of a branch that handles nothing
CodeOf(d) ==
  IF d = "verify" THEN "challenge"
  ELSE IF d = "doctor" THEN doctor
  ELSE IF d = "unhandled" THEN "code2"
  ELSE "code0"

Ignore(h, r, d) ==
  /\ Finish(h, CodeOf(d))
  /\ ignoredIds' = IF d \in {"self", "stale", "unaddressed"}
                   THEN ignoredIds \cup {r.event_id} ELSE ignoredIds
  /\ UNCHANGED <<sessions, appended, nproc>>

Process(h, r) ==
  /\ nproc' = [nproc EXCEPT ![r.event_id] = @ + 1]
  /\ locals' = [locals EXCEPT ![h] = LocalsOf(r)]
  /\ hid' = [hid EXCEPT ![h] = delivered + 1]
  /\ UNCHANGED ignoredIds
  /\ IF r.message_type = "text"
     THEN handleReply(h, r.text, SessionIdOf(r), delivered + 1, {}, <<>>)
     ELSE IF r.message_type = "audio"
     THEN /\ Goto(h, "awaitToken", {"token"}, <<>>, NothingSent)
          /\ UNCHANGED <<sessions, appended>>
     ELSE /\ ReplyCall(h, "unsupported", {}, <<>>, NothingSent, "awaitLastReply")
          /\ UNCHANGED <<sessions, appended>>

Webhook(h, r) ==
  /\ ~Blocked
  /\ Free(h)
  /\ \A g \in Handlers : Free(g) => h <= g
  /\ delivered' = delivered + 1
  /\ arrived' = [h |-> h, r |-> r, decision |-> Decision(r, now)]
  /\ replyFailed' = 0
  /\ UNCHANGED <<OPENAI_MAX_TOKEN, now, files>>
  /\ IF Decision(r, now) = "process" THEN Process(h, r) ELSE Ignore(h, r, Decision(r, now))

(***************************************************************************)
(* The continuations: what a handler does when the call it awaits settles. *)
(***************************************************************************)
\* the call handler h awaits at p settles; f names h when it is a reply that failed
Settle(h, p, f) ==
  /\ ~Blocked
  /\ pc[h] = p
  /\ arrived' = NoArrival
  /\ replyFailed' = f
  /\ UNCHANGED <<OPENAI_MAX_TOKEN, now, delivered, nproc, ignoredIds>>

Resume(h, p) == Settle(h, p, 0)

\* getOpenAIReply settles (with the trimmed answer, or with the apology when
\* createChatCompletion fails); then saveConversation and reply
ChatReturns(h, ok, a) ==
  LET answer == IF ok THEN JsTrim(a) ELSE APOLOGY
      sid == locals[h].sessionId
  IN /\ Resume(h, "awaitChat")
     /\ UNCHANGED files
     /\ appended' = [appended EXCEPT ![sid] = Append(@, Turn("assistant", answer, hid[h]))]
     /\ IF TrimDiverges(OPENAI_MAX_TOKEN)
        THEN /\ sessions' = Put(sessions, sid, <<>>)
             /\ Continue(h, "spin", calls[h], replies[h], sent[h])
        ELSE /\ sessions' = SaveStore(sessions, sid, answer, hid[h], OPENAI_MAX_TOKEN)
             /\ ReplyCall(h, "answer", calls[h], replies[h], sent[h], "awaitReply")
             /\ UNCHANGED <<locals, hid>>

\* getOpenaiImageUrl settles; its failure is not caught in cmdProcess
ImageReturns(h, ok) ==
  /\ Resume(h, "awaitImage")
  /\ UNCHANGED <<sessions, appended, files>>
  /\ IF ok
     THEN /\ ReplyCall(h, "url", calls[h], replies[h], sent[h], "awaitReply")
          /\ UNCHANGED <<locals, hid>>
     ELSE Throw(h)

\* what follows the reply of handleReply: the text branch responds, the audio
\* branch removes its two files first
AfterReply(h) ==
  LET a == AudioFilePath(locals[h].messageId)
      c == ConvertedAudioPath(locals[h].messageId)
  IN /\ UNCHANGED <<sessions, appended>>
     /\ IF locals[h].messageType # "audio"
        THEN /\ Finish(h, "code0")
             /\ UNCHANGED files
        ELSE IF a \notin files
        THEN /\ Catch(h)
             /\ UNCHANGED files
        ELSE IF c \notin files
        THEN /\ Catch(h)
             /\ files' = files \ {a}
        ELSE /\ Finish(h, "code0")
             /\ files' = files \ {a, c}

\* mutant: reply lets the failure of the send through
ReplyReturns_Rethrows(h, ok) ==
  /\ Settle(h, "awaitReply", IF ok THEN 0 ELSE h)
  /\ IF ok THEN AfterReply(h)
     ELSE Escape(h) /\ UNCHANGED <<sessions, appended, files>>

\* the reply of handleReply settles: client.im.message.reply resolved (ok) or
\* rejected; reply catches the rejection and returns as well
ReplyReturns(h, ok) ==
  /\ Settle(h, "awaitReply", IF ok THEN 0 ELSE h)
  /\ AfterReply(h)

\* the reply of the catch block or of the unsupported-type branch settles
LastReplyReturns(h, ok) ==
  /\ Settle(h, "awaitLastReply", IF ok THEN 0 ELSE h)
  /\ UNCHANGED <<sessions, appended, files>>
  /\ Finish(h, "code0")

(***************************************************************************)
(* The audio branch.                                                       *)
(***************************************************************************)
\* getTenantAccessToken settles: a token, undefined, or a rethrown error
TokenReturns(h, out) ==
  /\ Resume(h, "awaitToken")
  /\ UNCHANGED <<sessions, appended, files>>
  /\ IF out = "token"
     THEN Continue(h, "awaitFetch", calls[h] \cup {"fetch"}, replies[h], sent[h])
     ELSE Catch(h)

\* mutant: ffmpeg is started without waiting for the write stream
FetchReturns_SkipsDownload(h, ok) ==
  /\ Resume(h, "awaitFetch")
  /\ UNCHANGED <<sessions, appended>>
  /\ IF ok
     THEN /\ files' = files \cup {AudioFilePath(locals[h].messageId)}
          /\ Continue(h, "awaitTranscode", calls[h] \cup {"transcode"}, replies[h],
                      sent[h])
     ELSE /\ Catch(h)
          /\ UNCHANGED files

\* axios.get settles; on success the write stream creates the audio file
FetchReturns(h, ok) ==
  /\ Resume(h, "awaitFetch")
  /\ UNCHANGED <<sessions, appended>>
  /\ IF ok
     THEN /\ files' = files \cup {AudioFilePath(locals[h].messageId)}
          /\ Continue(h, "awaitDownload", calls[h], replies[h], sent[h])
     ELSE /\ Catch(h)
          /\ UNCHANGED files

\* the write stream finishes or fails; on success ffmpeg is started
DownloadReturns(h, ok) ==
  /\ Resume(h, "awaitDownload")
  /\ UNCHANGED <<sessions, appended, files>>
  /\ IF ok
     THEN Continue(h, "awaitTranscode", calls[h] \cup {"transcode"}, replies[h], sent[h])
     ELSE Catch(h)

\* ffmpeg ends or fails (it fails when its input file is gone; a failed run may
\* leave an output file); on success createTranscription is called
TranscodeReturns(h, ok, left) ==
  LET c == ConvertedAudioPath(locals[h].messageId)
  IN /\ Resume(h, "awaitTranscode")
     /\ UNCHANGED <<sessions, appended>>
     /\ ok => AudioFilePath(locals[h].messageId) \in files
     /\ ok => left
     /\ files' = IF left THEN files \cup {c} ELSE files
     /\ IF ok
        THEN Continue(h, "awaitTranscribe", calls[h] \cup {"transcribe"}, replies[h],
                      sent[h])
        ELSE Catch(h)

\* createTranscription settles (it fails when the converted file is gone); on
\* success the transcribed text goes through handleReply
TranscribeReturns(h, ok, text) ==
  /\ Resume(h, "awaitTranscribe")
  /\ UNCHANGED files
  /\ ok => ConvertedAudioPath(locals[h].messageId) \in files
  /\ IF ok
     THEN /\ handleReply(h, text, locals[h].sessionId, hid[h], calls[h], replies[h])
          /\ UNCHANGED <<locals, hid>>
     ELSE /\ Catch(h)
          /\ UNCHANGED <<sessions, appended>>

\* time passes
Tick ==
  /\ ~Blocked
  /\ now + STALE_MS + 1 \in Clock
  /\ now' = now + STALE_MS + 1
  /\ arrived' = NoArrival
  /\ replyFailed' = 0
  /\ UNCHANGED <<sessions, OPENAI_MAX_TOKEN, files, pc, locals, hid, sent, replies,
                 calls, res, delivered, nproc, ignoredIds, appended>>

\* a request arrives, within the bound of the model
Deliver(h, r) == delivered < MaxDeliveries /\ Webhook(h, r)

DeliverChat(h, r) == delivered < MaxChats /\ Webhook(h, r)

DeliverDispatch(h, r) == delivered < MaxDispatches /\ Webhook(h, r)

Next ==
  \/ \E h \in Handlers, r \in Requests : Deliver(h, r)
  \/ \E h \in Handlers, ok \in BOOLEAN, a \in OneAnswer : ChatReturns(h, ok, a)
  \/ \E h \in Handlers, ok \in BOOLEAN : ImageReturns(h, ok)
  \/ \E h \in Handlers, ok \in BOOLEAN : ReplyReturns(h, ok)
  \/ \E h \in Handlers, ok \in BOOLEAN : LastReplyReturns(h, ok)
  \/ \E h \in Handlers, out \in {"token", "undefined", "error"} : TokenReturns(h, out)
  \/ \E h \in Handlers, ok \in BOOLEAN : FetchReturns(h, ok)
  \/ \E h \in Handlers, ok \in BOOLEAN : DownloadReturns(h, ok)
  \/ \E h \in Handlers, ok \in BOOLEAN, left \in BOOLEAN : TranscodeReturns(h, ok, left)
  \/ \E h \in Handlers, ok \in BOOLEAN, t \in TranscribedChoices :
        TranscribeReturns(h, ok, t)
  \/ Tick

Spec == Init /\ [][Next]_vars

\* conversations only: every delivery is a text message of a private chat
NextChat ==
  \/ \E h \in Handlers, r \in ChatRequests : DeliverChat(h, r)
  \/ \E h \in Handlers, ok \in BOOLEAN, a \in AnswerChoices : ChatReturns(h, ok, a)
  \/ \E h \in Handlers, ok \in BOOLEAN : ReplyReturns(h, ok)

SpecChat == Init /\ [][NextChat]_vars

\* conversations under every configured ceiling
SpecConfigured == InitConfigured /\ [][NextChat]_vars

\* the dispatch only: every delivery is a text or a picture of a private chat
NextDispatch ==
  \/ \E h \in Handlers, r \in DispatchRequests : DeliverDispatch(h, r)
  \/ \E h \in Handlers, ok \in BOOLEAN, a \in AnswerChoices : ChatReturns(h, ok, a)
  \/ \E h \in Handlers, ok \in BOOLEAN : ImageReturns(h, ok)
  \/ \E h \in Handlers, ok \in BOOLEAN : ReplyReturns(h, ok)
  \/ \E h \in Handlers, ok \in BOOLEAN : LastReplyReturns(h, ok)

SpecDispatch == Init /\ [][NextDispatch]_vars

(***************************************************************************)
(* Properties.                                                             *)
(***************************************************************************)
IsSuffix(s, t) == Len(s) <= Len(t) /\ SubSeq(t, Len(t) - Len(s) + 1, Len(t)) = s

\* handler h runs buildConversation in this step
Builds(h) == pc[h] # "awaitChat" /\ pc'[h] = "awaitChat"

\* handler h runs saveConversation in this step
Saves(h) == pc[h] = "awaitChat" /\ pc'[h] # "awaitChat"

\* a request arrives in this step
Arrives == arrived'.h # 0

(* C1: of deliveries handled one after another, at most one delivery of an
   eventId is processed (reaches the text, audio or unsupported-type handling):
   a delivery of an eventId processed before is ignored. *)
C1_ProcessedAtMostOnce ==
  [][(Arrives /\ arrived'.r.kind = "message" /\ (\A g \in Handlers : Free(g))
        /\ nproc[arrived'.r.event_id] >= 1) =>
       (nproc' = nproc /\ pc'[arrived'.h] = "done")]_vars

(* C2: of two deliveries of one eventId handled concurrently at most one is
   admitted: no two handlers are at work on the same eventId. *)
C2_OneHandlerPerEvent ==
  \A g, h \in Handlers :
     (g # h /\ ~Free(g) /\ ~Free(h)) => locals[g].eventId # locals[h].eventId

(* C3: the session mutations of two chat events of one session never
   interleave: every user Turn of the stored history is followed at once by the
   assistant Turn answering it (or is the last Turn, its handler still awaiting
   the model), and a prompt sent to the model holds no unanswered user Turn of
   another event. *)
C3_Serialized ==
  /\ \A sid \in DOMAIN sessions : \A i \in 1..Len(sessions[sid]) :
        sessions[sid][i].role = "user" =>
          IF i < Len(sessions[sid])
          THEN /\ sessions[sid][i + 1].role = "assistant"
               /\ sessions[sid][i + 1].of = sessions[sid][i].of
          ELSE \E h \in Handlers : pc[h] = "awaitChat" /\ hid[h] = sessions[sid][i].of
  /\ \A h \in Handlers : pc[h] = "awaitChat" =>
        \A i \in 1..Len(sent[h].arg) :
           (sent[h].arg[i].role = "user" /\ sent[h].arg[i].of # hid[h]) =>
              /\ i < Len(sent[h].arg)
              /\ sent[h].arg[i + 1].role = "assistant"
              /\ sent[h].arg[i + 1].of = sent[h].arg[i].of

(* C4: right after each saveConversation the content lengths of the Turns of
   the session sum to at most the ceiling, unless the history is one Turn that
   alone exceeds the ceiling. *)
C4_Budget ==
  [][\A h \in Handlers : Saves(h) =>
       LET sid == locals[h].sessionId
           hist == HistoryOf(sessions', sid)
       IN /\ HasSession(sessions', sid)
          /\ \/ TotalSize(hist) <= OPENAI_MAX_TOKEN
             \/ Len(hist) = 1 /\ JsLength(hist[1].content) > OPENAI_MAX_TOKEN]_vars

\* a saveConversation has just trimmed at least two Turns and kept some
C4_Witness ==
  \E h \in Handlers :
     /\ pc[h] = "awaitReply" /\ replies[h] = <<"answer">>
     /\ HasSession(sessions, locals[h].sessionId)
     /\ sessions[locals[h].sessionId] # <<>>
     /\ Len(sessions[locals[h].sessionId]) + 2 <= Len(appended[locals[h].sessionId])

(* C5: when the assistant Turn just appended is alone larger than the ceiling,
   the trim leaves exactly that Turn in the history. *)
C5_OversizedTurnKept ==
  [][\A h \in Handlers : Saves(h) =>
       LET sid == locals[h].sessionId
           t == appended'[sid][Len(appended'[sid])]
       IN JsLength(t.content) > OPENAI_MAX_TOKEN =>
            HistoryOf(sessions', sid) = <<t>>]_vars

(* C6: buildConversation on a sessionId without a stored Session creates it,
   its only Turn the user Turn; after the saveConversation that follows, within
   the budget, the stored history is the user Turn and the assistant Turn. *)
C6_AppendUserCreates ==
  [][\A h \in Handlers :
       /\ (Builds(h) /\ ~HasSession(sessions, locals'[h].sessionId)) =>
            /\ HasSession(sessions', locals'[h].sessionId)
            /\ sessions'[locals'[h].sessionId] = sent'[h].arg
            /\ Len(sent'[h].arg) = 1
       /\ (Saves(h) /\ Len(sent[h].arg) = 1
             /\ appended[locals[h].sessionId] = sent[h].arg
             /\ TotalSize(appended'[locals[h].sessionId]) <= OPENAI_MAX_TOKEN) =>
            HistoryOf(sessions', locals[h].sessionId) = appended'[locals[h].sessionId]]_vars

(* C7: the stored history of a session is always a suffix of the Turns pushed
   to the session since its last clear, in the order of the pushes; and
   buildConversation right after a clear returns a history of one Turn. *)
C7_StoredIsSuffix ==
  \A sid \in DOMAIN sessions : IsSuffix(sessions[sid], appended[sid])

C7_Ordering ==
  /\ []C7_StoredIsSuffix
  /\ [][\A h \in Handlers :
          (Builds(h) /\ appended[locals'[h].sessionId] = <<>>) =>
             Len(sent'[h].arg) = 1]_vars

\* a history that lost Turns from its head and kept others
C7_Witness ==
  \E sid \in DOMAIN sessions :
     /\ sessions[sid] # <<>>
     /\ Len(sessions[sid]) + 2 <= Len(appended[sid])
     /\ IsSuffix(sessions[sid], appended[sid])

(* C8: the eventId is recorded before any other rule is evaluated, so that an
   event ignored as self, stale or unaddressed is never processed in a later
   delivery of it. *)
C8_IgnoredStaysIgnored ==
  [][\A e \in ignoredIds : nproc'[e] = nproc[e]]_vars

(* C9: a message event older than the staleness threshold is ignored whatever
   its other fields: the handler responds at once, calls no collaborator, sends
   no reply and changes no session and no file. *)
C9_StaleIgnored ==
  [][(Arrives /\ arrived'.r.kind = "message"
        /\ now - arrived'.r.create_time > STALE_MS) =>
       /\ pc'[arrived'.h] = "done"
       /\ res'[arrived'.h] = Response("code0")
       /\ calls'[arrived'.h] = {} /\ replies'[arrived'.h] = <<>>
       /\ sessions' = sessions /\ appended' = appended /\ files' = files
       /\ nproc' = nproc]_vars

\* a stale audio message of a user in a private chat has arrived
C9_Witness ==
  /\ arrived.h # 0 /\ arrived.r.kind = "message"
  /\ now - arrived.r.create_time > STALE_MS
  /\ arrived.r.sender_type = "user" /\ arrived.r.chat_type = "p2p"
  /\ arrived.r.message_type = "audio"
  /\ pc[arrived.h] = "done"

(* C10: a message event whose sender is the bot is ignored: the handler
   responds at once, sends no reply, calls no collaborator and changes no
   session. *)
C10_SelfIgnored ==
  [][(Arrives /\ arrived'.r.kind = "message" /\ arrived'.r.sender_type = "bot") =>
       /\ pc'[arrived'.h] = "done"
       /\ res'[arrived'.h] = Response("code0")
       /\ calls'[arrived'.h] = {} /\ replies'[arrived'.h] = <<>>
       /\ sessions' = sessions /\ appended' = appended /\ files' = files
       /\ nproc' = nproc]_vars

\* a fresh text message sent by the bot in a private chat has arrived
C10_Witness ==
  /\ arrived.h # 0 /\ arrived.r.kind = "message"
  /\ arrived.r.sender_type = "bot" /\ arrived.r.chat_type = "p2p"
  /\ arrived.r.message_type = "text"
  /\ now - arrived.r.create_time <= STALE_MS
  /\ pc[arrived.h] = "done"

\* the mentions of a request name the configured bot
NamesBot(r) ==
  \E i \in 1..Len(r.mentions.list) : r.mentions.list[i].name = FEISHU_BOTNAME

(* C11: a group-chat event that is neither from the bot nor stale is processed
   if and only if its mentions contain the configured bot identity: without
   mentions, or with mentions none of which is the bot, it is ignored. *)
C11_GroupAddressing ==
  [][(Arrives /\ arrived'.r.kind = "message" /\ arrived'.r.chat_type = "group"
        /\ arrived'.r.sender_type # "bot"
        /\ now - arrived'.r.create_time <= STALE_MS) =>
       IF NamesBot(arrived'.r)
       THEN nproc'[arrived'.r.event_id] = nproc[arrived'.r.event_id] + 1
       ELSE /\ nproc' = nproc
            /\ pc'[arrived'.h] = "done"
            /\ calls'[arrived'.h] = {} /\ replies'[arrived'.h] = <<>>]_vars

(* C12: whatever collaborators fail, no exception escapes the handler: every
   handling ends with a response to the delivery. *)
C12_NoErrorEscapes ==
  \A h \in Handlers : pc[h] # "threw" /\ (pc[h] = "done" => res[h].sent)

\* handler h, at work on an audio message, ends in this step
AudioEnds(h) == ~Free(h) /\ locals[h].messageType = "audio" /\ pc'[h] \in {"done", "threw"}

(* C13: when an audio pipeline invocation ends, on any exit path, neither the
   downloaded file nor the converted file it created still exists. *)
C13_FilesReleased ==
  [][\A h \in Handlers : AudioEnds(h) =>
       /\ AudioFilePath(locals[h].messageId) \notin files'
       /\ ConvertedAudioPath(locals[h].messageId) \notin files']_vars

\* handler h is inside the audio branch and has opened its downloaded file
InAudio(h) ==
  /\ locals[h].messageType = "audio"
  /\ pc[h] \in {"awaitDownload", "awaitTranscode", "awaitTranscribe", "awaitChat",
               "awaitImage", "awaitReply"}

(* C16: no two audio pipeline invocations in progress at the same time use
   the same temporary file path, also when one message is delivered twice and
   both deliveries are handled concurrently. *)
C16_PrivateFiles ==
  \A g, h \in Handlers :
     (g # h /\ InAudio(g) /\ InAudio(h)) =>
        {AudioFilePath(locals[g].messageId), ConvertedAudioPath(locals[g].messageId)}
          \cap {AudioFilePath(locals[h].messageId), ConvertedAudioPath(locals[h].messageId)}
        = {}

\* the awaits of the audio pipeline, in the order of the code
PipelineSteps ==
  <<"awaitToken", "awaitFetch", "awaitDownload", "awaitTranscode", "awaitTranscribe">>

StepOf(p) == CHOOSE j \in 1..Len(PipelineSteps) : PipelineSteps[j] = p

\* the collaborators called when the pipeline is at its j-th await
CallsUpTo(j) ==
  IF j = 1 THEN {"token"}
  ELSE IF j <= 3 THEN {"token", "fetch"}
  ELSE IF j = 4 THEN {"token", "fetch", "transcode"}
  ELSE {"token", "fetch", "transcode", "transcribe"}

IsStep(p) == \E j \in 1..Len(PipelineSteps) : PipelineSteps[j] = p

\* a step of the pipeline of handler h fails in this step
StepFails(h) == IsStep(pc[h]) /\ pc'[h] = "awaitLastReply"

(* C14: when a step of the audio pipeline fails, no later step is attempted
   (no transcription after a failed transcode), no chat completion is
   requested, no session changes, and the one reply of the handling is the
   fixed audio-failure text. *)
C14_FailureAborts ==
  [][\A h \in Handlers :
       /\ StepFails(h) =>
            /\ calls[h] = CallsUpTo(StepOf(pc[h]))
            /\ calls'[h] = calls[h] \cup {"reply"}
            /\ replies'[h] = <<"audioFail">>
            /\ sessions' = sessions /\ appended' = appended
       /\ (pc[h] = "awaitLastReply" /\ locals[h].messageType = "audio"
             /\ pc'[h] # pc[h]) =>
            /\ pc'[h] = "done" /\ res'[h] = Response("code0")
            /\ sessions' = sessions /\ appended' = appended]_vars

\* the transcode of an audio message has failed
C14_Witness ==
  \E h \in Handlers :
     /\ pc[h] = "awaitLastReply" /\ locals[h].messageType = "audio"
     /\ calls[h] = {"token", "fetch", "transcode", "reply"}
     /\ replies[h] = <<"audioFail">>

(* C15: the steps of an audio pipeline invocation happen in the order fetch,
   download, transcode, transcribe, cleanup: a step starts only from the await
   of the step before it, the transcribed text reaches the text path only from
   the await of the transcription, and files are removed only after the text
   path has replied. *)
C15_StepOrder ==
  [][\A h \in Handlers :
       /\ (locals'[h].messageType = "audio" /\ pc'[h] # pc[h]) =>
            /\ pc'[h] = "awaitToken" => Free(h)
            /\ (IsStep(pc'[h]) /\ pc'[h] # "awaitToken") =>
                 /\ IsStep(pc[h])
                 /\ StepOf(pc'[h]) = StepOf(pc[h]) + 1
                 /\ calls[h] = CallsUpTo(StepOf(pc[h]))
            /\ (pc'[h] \in {"awaitChat", "awaitImage"}
                  \/ (pc'[h] = "awaitReply" /\ pc[h] \notin {"awaitChat", "awaitImage"})) =>
                 /\ pc[h] = "awaitTranscribe"
                 /\ calls[h] = CallsUpTo(5)
       /\ (locals[h].messageType = "audio" /\ pc'[h] # pc[h] /\ files' # files
             /\ files' \subseteq files) =>
            pc[h] = "awaitReply"]_vars

\* an audio message went through every step and its answer was replied
C15_Witness ==
  \E h \in Handlers :
     /\ pc[h] = "awaitReply" /\ locals[h].messageType = "audio"
     /\ calls[h] = {"token", "fetch", "transcode", "transcribe", "chat", "reply"}
     /\ replies[h] = <<"answer">>
     /\ {AudioFilePath(locals[h].messageId), ConvertedAudioPath(locals[h].messageId)}
          \subseteq files

\* the text the router sees: the text of the request, trimmed
Routed(r) == JsTrim(r.text)

\* a text request is processed in this step
TextArrives ==
  /\ Arrives /\ arrived'.decision = "process" /\ arrived'.r.message_type = "text"

IsImageCommand(a) == a = T_imageOnly \/ StartsWith(a, T_imageOnly \o <<" ">>)

(* C17: routing of the trimmed text: a text that does not start with "/" goes
   to the model as the last Turn of the prompt, whole; "/clear" clears the
   session and replies so; "/image" followed by a prompt asks for an image with
   the text after the command, trimmed (empty when nothing follows); "/help"
   replies the help text. *)
C17_Routing ==
  [][TextArrives =>
       LET r == arrived'.r
           h == arrived'.h
           a == Routed(r)
           sid == SessionIdOf(r)
       IN /\ ~StartsWith(a, <<"/">>) =>
               /\ sent'[h].kind = "chat" /\ calls'[h] = {"chat"}
               /\ sent'[h].arg[Len(sent'[h].arg)].role = "user"
               /\ sent'[h].arg[Len(sent'[h].arg)].content = a
          /\ a = T_clear =>
               /\ replies'[h] = <<"cleared">> /\ calls'[h] = {"reply"}
               /\ ~HasSession(sessions', sid)
          /\ IsImageCommand(a) =>
               /\ sent'[h].kind = "image" /\ calls'[h] = {"image"}
               /\ sent'[h].arg = JsTrim(SubSeq(a, Len(T_imageOnly) + 1, Len(a)))
               /\ a = T_imageOnly => sent'[h].arg = <<>>
          /\ a = T_help =>
               /\ replies'[h] = <<"help">> /\ calls'[h] = {"reply"}]_vars

\* "/image  c " has arrived and the image is asked for with the prompt "c"
C17_Witness ==
  /\ arrived.h # 0 /\ arrived.r.text = T_imagePadded
  /\ pc[arrived.h] = "awaitImage"
  /\ sent[arrived.h] = [kind |-> "image", arg |-> <<"c">>]

(* C18: a text that starts with "/" and is none of "/clear", "/help" and
   "/image" with or without a prompt yields the help text: the image
   collaborator is not called and no session changes. *)
C18_UnknownIsHelp ==
  [][TextArrives =>
       LET h == arrived'.h
           a == Routed(arrived'.r)
       IN (StartsWith(a, <<"/">>) /\ a \notin {T_clear, T_help} /\ ~IsImageCommand(a)) =>
            /\ replies'[h] = <<"help">> /\ calls'[h] = {"reply"}
            /\ sessions' = sessions /\ appended' = appended]_vars

(* C19: a reply whose send fails is swallowed: the handling goes on as after a
   send that succeeded and ends with its response, the Turns pushed, the
   session cleared and the count of processed deliveries stay as they are, and
   the same reply is not sent again. *)
C19_ReplyFailureSwallowed ==
  [][\A h \in Handlers : replyFailed' = h =>
       /\ sessions' = sessions /\ appended' = appended /\ nproc' = nproc
       /\ \/ pc'[h] = "done" /\ res'[h] = Response("code0")
          \/ /\ locals[h].messageType = "audio"
             /\ ~({AudioFilePath(locals[h].messageId),
                   ConvertedAudioPath(locals[h].messageId)} \subseteq files)
             /\ pc'[h] = "awaitLastReply"
             /\ replies'[h] = Append(replies[h], "audioFail")]_vars

\* the answer of the only delivery was saved, its reply failed, the handling
\* ended with its response and the answer is still stored
C19_Witness ==
  /\ replyFailed # 0 /\ delivered = 1
  /\ pc[replyFailed] = "done" /\ res[replyFailed] = Response("code0")
  /\ \E sid \in DOMAIN sessions :
        /\ sessions[sid] # <<>>
        /\ sessions[sid][Len(sessions[sid])].role = "assistant"

\* the stored history of a session differs after this step
Changed(sid) ==
  \/ HasSession(sessions, sid) # HasSession(sessions', sid)
  \/ HistoryOf(sessions, sid) # HistoryOf(sessions', sid)

\* handler h runs cmdClear in this step
Clears(h) ==
  /\ Len(replies'[h]) = Len(replies[h]) + 1
  /\ replies'[h][Len(replies'[h])] = "cleared"

(* C20: only a chat request and a clear request change the session store, and
   only the session of the event's own chat and sender; handling a message of
   an unsupported type sends the one fixed reply and changes no session, and a
   help or an image request changes none either. *)
C20_Frame ==
  [][/\ \A sid \in SessionIds : Changed(sid) =>
          \E h \in Handlers :
             \/ Builds(h) /\ locals'[h].sessionId = sid
             \/ Saves(h) /\ locals[h].sessionId = sid
             \/ Clears(h) /\ locals'[h].sessionId = sid
     /\ (Arrives /\ arrived'.decision = "process"
           /\ arrived'.r.message_type \notin {"text", "audio"}) =>
          /\ replies'[arrived'.h] = <<"unsupported">>
          /\ calls'[arrived'.h] = {"reply"}
          /\ pc'[arrived'.h] = "awaitLastReply"]_vars

\* a user has cleared a session while the session of another user is stored
C20_Witness ==
  \E h \in Handlers :
     /\ pc[h] = "awaitReply" /\ replies[h] = <<"cleared">>
     /\ ~HasSession(sessions, locals[h].sessionId)
     /\ \E sid \in DOMAIN sessions : sid # locals[h].sessionId /\ sessions[sid] # <<>>

\* the last n Turns of a history
LastTurns(h, n) == SubSeq(h, Len(h) - n + 1, Len(h))

(* C21: the trim of saveConversation removes Turns from the head only and
   stops as soon as the budget holds: the stored history is the longest suffix
   of the history before the trim whose content lengths sum to at most the
   ceiling. *)
C21_LongestSuffix ==
  [][\A h \in Handlers : Saves(h) =>
       LET sid == locals[h].sessionId
           pre == Append(HistoryOf(sessions, sid),
                         appended'[sid][Len(appended'[sid])])
           post == HistoryOf(sessions', sid)
       IN /\ IsSuffix(post, pre)
          /\ TotalSize(post) <= OPENAI_MAX_TOKEN
          /\ \A n \in 0..Len(pre) :
                TotalSize(LastTurns(pre, n)) <= OPENAI_MAX_TOKEN => n <= Len(post)]_vars

\* a saveConversation has just removed exactly the oldest Turn of three: the
\* two newest fill the ceiling
C21_Witness ==
  \E h \in Handlers :
     /\ pc[h] = "awaitReply" /\ replies[h] = <<"answer">>
     /\ HasSession(sessions, locals[h].sessionId)
     /\ Len(sessions[locals[h].sessionId]) = 2
     /\ TotalSize(sessions[locals[h].sessionId]) = OPENAI_MAX_TOKEN
     /\ Len(appended[locals[h].sessionId]) = 4

\* the catch block of the audio branch of handler h sends its reply in this step
CatchReplies(h) ==
  /\ locals[h].messageType = "audio"
  /\ replies'[h] = Append(replies[h], "audioFail")

(* C22: an audio event whose transcription succeeded is handled as a text
   event with the transcribed text: the audio-failure reply is sent only when
   a step of the pipeline failed, never for a failure after the transcription
   (an image generation that fails for a transcribed "/image ..."). *)
C22_AudioAsText ==
  [][\A h \in Handlers : CatchReplies(h) => IsStep(pc[h])]_vars

\* the Turns of a history pushed by the handling numbered k
TurnsOf(hist, k) == {i \in 1..Len(hist) : hist[i].of = k}

\* the session of handler h, at its saveConversation, was cleared after its
\* buildConversation: the user Turn it pushed is not among the Turns pushed
\* since the last clear
ClearedSinceBuild(h) ==
  Saves(h) /\ TurnsOf(appended[locals[h].sessionId], hid[h]) = {}

(* C23: after a clear of a session its history holds no Turn of an event
   admitted before the clear: a chat request that awaited the model while the
   clear ran puts neither its user Turn nor its assistant Turn into the
   history afterwards. *)
C23_ClearIsFinal ==
  [][\A h \in Handlers : ClearedSinceBuild(h) =>
       TurnsOf(HistoryOf(sessions', locals[h].sessionId), hid[h]) = {}]_vars

(* C24: the handling of one event sends at most one reply, on every path:
   text, command, unsupported type and audio, also when the text path of an
   audio event has replied and the removal of its files then fails. *)
C24_AtMostOneReply ==
  \A h \in Handlers : Len(replies[h]) <= 1

(* C25: the trim loop of saveConversation terminates for every history and
   every ceiling the configuration can give, negative ones included, and
   never shifts an empty history. *)
C25_TrimTerminates ==
  \A h \in Handlers : pc[h] # "spin"

====
